---- MODULE Spec2Model ----
(***************************************************************************)
(* Model of two parts of the amp editor:                                   *)
(*   - ThemeMode (src/models/application/modes/theme.rs), the search-select *)
(*     mode used to pick a theme;                                          *)
(*   - Preferences (src/models/application/preferences.rs), the resolver of *)
(*     typed, defaulted settings over an optional YAML document.           *)
(* Strings that the code inspects character by character (the query and    *)
(* the theme names) are sequences of one-character strings.                *)
(***************************************************************************)
EXTENDS Integers, Sequences, FiniteSets, TLC

VARIABLES
    insert,       \* ThemeMode.insert
    input,        \* ThemeMode.input (the query buffer)
    themes,       \* ThemeMode.themes (the candidate set)
    results,      \* ThemeMode.results : SelectableVec<String>
    called,       \* the ThemeMode operation that ran last, and the cursor before it
    config_file,  \* config.yml in the user configuration directory
    preferences,  \* what Preferences::new / Preferences::load returned
    queried       \* the Preferences query that ran last, and what it returned

vars == <<insert, input, themes, results, called, config_file, preferences, queried>>
theme_vars == <<insert, input, themes, results, called>>
prefs_vars == <<config_file, preferences, queried>>

(***************************************************************************)
(* Bounds                                                                  *)
(***************************************************************************)
\* longest query the input layer types
MaxQueryLen == 2
\* largest candidate set handed to ThemeMode::new
MaxThemes == 6
\* width of usize and i64 in the model (64 in the build); see AsUsize
UsizeBits == 8

Alphabet == {"a", "b"}

\* The theme names candidate sets are drawn from, in directory order.
ThemePool ==
    << <<"a">>, <<"a", "a">>, <<"a", "b">>, <<"b", "a">>,
       <<"a", "a", "b">>, <<"a", "b", "a">>, <<"b">> >>

\* Option<T>
None == [some |-> FALSE]
Some(x) == [some |-> TRUE, value |-> x]

(***************************************************************************)
(* fragment::matching::find(needle, haystack, max_results)                 *)
(* Scores every candidate against the query, keeps the candidates that     *)
(* match, orders them best first (ties in candidate order) and truncates   *)
(* the list to max_results.                                                *)
(***************************************************************************)
RECURSIVE IsSubsequence(_, _)
IsSubsequence(needle, hay) ==
    IF needle = <<>> THEN TRUE
    ELSE IF hay = <<>> THEN FALSE
    ELSE IF Head(needle) = Head(hay) THEN IsSubsequence(Tail(needle), Tail(hay))
    ELSE IsSubsequence(needle, Tail(hay))

similarity(needle, hay) ==
    IF needle = <<>> \/ ~IsSubsequence(needle, hay) THEN 0
    ELSE (100 * Len(needle)) \div Len(hay)

\* insert x into a list ordered by descending score, after its equals
RECURSIVE InsertByScore(_, _, _)
InsertByScore(x, sorted, needle) ==
    IF sorted = <<>> THEN <<x>>
    ELSE IF similarity(needle, Head(sorted)) >= similarity(needle, x)
         THEN <<Head(sorted)>> \o InsertByScore(x, Tail(sorted), needle)
         ELSE <<x>> \o sorted

RECURSIVE SortByScore(_, _)
SortByScore(list, needle) ==
    IF list = <<>> THEN <<>>
    ELSE InsertByScore(list[Len(list)], SortByScore(SubSeq(list, 1, Len(list) - 1), needle), needle)

Truncate(list, n) == IF Len(list) > n THEN SubSeq(list, 1, n) ELSE list

find(needle, haystack, max_results) ==
    Truncate(SortByScore(SelectSeq(haystack, LAMBDA h : similarity(needle, h) > 0), needle),
             max_results)

\* models::application::modes::MAX_SEARCH_SELECT_RESULTS
MAX_SEARCH_SELECT_RESULTS == 5

(***************************************************************************)
(* helpers::SelectableVec<T>                                               *)
(***************************************************************************)
SelectableVec_new(items) == [data |-> items, selected_index |-> 0]

SelectableVec_selection(sv) ==
    IF sv.selected_index < Len(sv.data) THEN Some(sv.data[sv.selected_index + 1]) ELSE None

SelectableVec_selected_index(sv) == sv.selected_index

SelectableVec_select_previous(sv) ==
    IF sv.selected_index > 0
    THEN [sv EXCEPT !.selected_index = @ - 1]
    ELSE sv

SelectableVec_select_next(sv) ==
    IF sv.selected_index + 1 < Len(sv.data)
    THEN [sv EXCEPT !.selected_index = @ + 1]
    ELSE sv

(***************************************************************************)
(* ThemeMode                                                               *)
(***************************************************************************)
\* the accessors of SearchSelectMode
results_iter == results.data
selection == SelectableVec_selection(results)
selected_index == SelectableVec_selected_index(results)
insert_mode == insert

\* the record of a call: the operation, the cursor and the length of the list
\* before it, and whether search() has run since the query was last edited
Called(op, searched) ==
    [op |-> op, index |-> results.selected_index, len |-> Len(results.data),
     searched |-> searched]

\* candidate sets: the names of ThemePool at the positions of S, in order
ThemesAt(S) ==
    LET F[i \in 0..Len(ThemePool)] ==
            IF i = 0 THEN <<>>
            ELSE IF i \in S THEN Append(F[i - 1], ThemePool[i]) ELSE F[i - 1]
    IN  F[Len(ThemePool)]

CandidateSets ==
    {ThemesAt(S) : S \in {T \in SUBSET (1..Len(ThemePool)) : Cardinality(T) <= MaxThemes}}

\* ThemeMode::new(themes)
ThemeMode_new(candidates) ==
    /\ insert = TRUE
    /\ input = <<>>
    /\ themes = candidates
    /\ results = SelectableVec_new(<<>>)
    /\ called = [op |-> "new", index |-> 0, len |-> 0, searched |-> FALSE]

\* search() that keeps the cursor of the list it replaces
search_keeps_cursor ==
    /\ results' = [data |-> find(input, themes, MAX_SEARCH_SELECT_RESULTS),
                   selected_index |-> results.selected_index]
    /\ called' = Called("search", TRUE)
    /\ UNCHANGED <<insert, input, themes, prefs_vars>>

\* search() that asks the matcher for as many results as there are candidates
search_unlimited ==
    /\ results' = SelectableVec_new(find(input, themes, Len(themes)))
    /\ called' = Called("search", TRUE)
    /\ UNCHANGED <<insert, input, themes, prefs_vars>>

\* search() that returns early, leaving the old list, when nothing matches
search_skips_empty ==
    /\ results' = IF find(input, themes, MAX_SEARCH_SELECT_RESULTS) = <<>>
                  THEN results
                  ELSE SelectableVec_new(find(input, themes, MAX_SEARCH_SELECT_RESULTS))
    /\ called' = Called("search", TRUE)
    /\ UNCHANGED <<insert, input, themes, prefs_vars>>

\* search() that adds the matches to the list instead of replacing it
search_appends ==
    /\ results' = SelectableVec_new(results.data \o find(input, themes, MAX_SEARCH_SELECT_RESULTS))
    /\ called' = Called("search", TRUE)
    /\ UNCHANGED <<insert, input, themes, prefs_vars>>

search ==
    /\ results' = SelectableVec_new(find(input, themes, MAX_SEARCH_SELECT_RESULTS))
    /\ called' = Called("search", TRUE)
    /\ UNCHANGED <<insert, input, themes, prefs_vars>>

\* query(): the input layer appends a character to the buffer ...
query_push(c) ==
    /\ Len(input) < MaxQueryLen
    /\ input' = Append(input, c)
    /\ called' = Called("query", FALSE)
    /\ UNCHANGED <<insert, themes, results, prefs_vars>>

\* ... or deletes the last one
query_pop ==
    /\ input # <<>>
    /\ input' = SubSeq(input, 1, Len(input) - 1)
    /\ called' = Called("query", FALSE)
    /\ UNCHANGED <<insert, themes, results, prefs_vars>>

set_insert_mode(insert_mode_arg) ==
    /\ insert' = insert_mode_arg
    /\ called' = Called("set_insert_mode", called.searched)
    /\ UNCHANGED <<input, themes, results, prefs_vars>>

\* select_previous() that delegates to the wrong SelectableVec method
select_previous_calls_next ==
    /\ results' = SelectableVec_select_next(results)
    /\ called' = Called("select_previous", called.searched)
    /\ UNCHANGED <<insert, input, themes, prefs_vars>>

select_previous ==
    /\ results' = SelectableVec_select_previous(results)
    /\ called' = Called("select_previous", called.searched)
    /\ UNCHANGED <<insert, input, themes, prefs_vars>>

select_next ==
    /\ results' = SelectableVec_select_next(results)
    /\ called' = Called("select_next", called.searched)
    /\ UNCHANGED <<insert, input, themes, prefs_vars>>


(***************************************************************************)
(* yaml::Yaml, the document tree of the YAML parser                        *)
(***************************************************************************)
YInteger(n) == [t |-> "Integer", i |-> n]
YString(str) == [t |-> "String", s |-> str]
YBoolean(bool) == [t |-> "Boolean", b |-> bool]
YHash(map) == [t |-> "Hash", h |-> map]
YNull == [t |-> "Null"]
YBadValue == [t |-> "BadValue"]

\* data[key]: the entry of a mapping, BadValue for a missing key or a non-mapping
YamlIndex(node, key) ==
    IF node.t = "Hash" /\ key \in DOMAIN node.h THEN node.h[key] ELSE YBadValue

(***************************************************************************)
(* Preferences: constants                                                  *)
(***************************************************************************)
TYPES_KEY == "types"
THEME_KEY == "theme"
TAB_WIDTH_KEY == "tab_width"
LINE_LENGTH_GUIDE_KEY == "line_length_guide"
LINE_WRAPPING_KEY == "line_wrapping"
SOFT_TABS_KEY == "soft_tabs"

THEME_DEFAULT == "solarized_dark"
TAB_WIDTH_DEFAULT == 2
LINE_LENGTH_GUIDE_DEFAULT == 80
LINE_WRAPPING_DEFAULT == TRUE
SOFT_TABS_DEFAULT == TRUE

(***************************************************************************)
(* Machine integers.  The document holds i64 values and the queries return *)
(* usize; `as usize` keeps the bit pattern, so a negative value becomes    *)
(* 2^w - |value|.  The model keeps the arithmetic and scales the width w   *)
(* from 64 down to UsizeBits.                                              *)
(***************************************************************************)
UsizeModulus == 2 ^ UsizeBits
IsizeMax == 2 ^ (UsizeBits - 1) - 1

AsUsize(n) == n % UsizeModulus

(***************************************************************************)
(* Paths.  A path is known by its file name, split at its dots, and by     *)
(* whether its extension is valid Unicode.                                 *)
(***************************************************************************)
Path(parts, unicode) == [parts |-> parts, unicode |-> unicode]

\* Path::extension(): the part after the last dot; none without a dot, and
\* none for a name whose only dot is its first character
Path_extension(p) ==
    IF Len(p.parts) <= 1 THEN None
    ELSE IF Len(p.parts) = 2 /\ p.parts[1] = "" THEN None
    ELSE Some([name |-> p.parts[Len(p.parts)], unicode |-> p.unicode])

\* OsStr::to_str(): none when the name is not valid Unicode
OsStr_to_str(e) == IF e.unicode THEN Some(e.name) ELSE None

\* path.and_then(|p| p.extension()).and_then(|e| e.to_str())
ExtensionOf(path) ==
    IF ~path.some THEN None
    ELSE IF ~Path_extension(path.value).some THEN None
    ELSE OsStr_to_str(Path_extension(path.value).value)

(***************************************************************************)
(* Preferences: the queries, as functions of self.data : Option<Yaml>     *)
(***************************************************************************)
Returned(v) == [returned |-> TRUE, value |-> v]
\* the call does not return: a panic, or the process aborted
Panicked == [returned |-> FALSE]

theme(data) ==
    IF data.some /\ YamlIndex(data.value, THEME_KEY).t = "String"
    THEN YamlIndex(data.value, THEME_KEY).s
    ELSE THEME_DEFAULT

tab_width(data, path) ==
    IF ~data.some THEN TAB_WIDTH_DEFAULT
    ELSE IF ExtensionOf(path).some
    THEN LET ext == ExtensionOf(path).value
             typed == YamlIndex(YamlIndex(YamlIndex(data.value, TYPES_KEY), ext), TAB_WIDTH_KEY)
         IN  IF typed.t = "Integer" THEN AsUsize(typed.i)
             ELSE IF YamlIndex(data.value, TAB_WIDTH_KEY).t = "Integer"
                  THEN AsUsize(YamlIndex(data.value, TAB_WIDTH_KEY).i)
                  ELSE TAB_WIDTH_DEFAULT
    ELSE IF YamlIndex(data.value, TAB_WIDTH_KEY).t = "Integer"
         THEN AsUsize(YamlIndex(data.value, TAB_WIDTH_KEY).i)
         ELSE TAB_WIDTH_DEFAULT

line_length_guide(data) ==
    IF ~data.some THEN None
    ELSE LET v == YamlIndex(data.value, LINE_LENGTH_GUIDE_KEY)
         IN  IF v.t = "Integer" THEN Some(AsUsize(v.i))
             ELSE IF v.t = "Boolean"
                  THEN (IF v.b THEN Some(LINE_LENGTH_GUIDE_DEFAULT) ELSE None)
                  ELSE None

line_wrapping(data) ==
    IF data.some /\ YamlIndex(data.value, LINE_WRAPPING_KEY).t = "Boolean"
    THEN YamlIndex(data.value, LINE_WRAPPING_KEY).b
    ELSE LINE_WRAPPING_DEFAULT

soft_tabs(data) ==
    IF data.some /\ YamlIndex(data.value, SOFT_TABS_KEY).t = "Boolean"
    THEN YamlIndex(data.value, SOFT_TABS_KEY).b
    ELSE SOFT_TABS_DEFAULT

Spaces(n) == [k \in 1..n |-> " "]

\* format!("{:1$}", "", width): the empty string padded with spaces to width.
\* A String holds at most isize::MAX bytes; building a longer one ends the
\* call (capacity overflow, or the allocator gives up before that).
FormatPadded(width) == IF width > IsizeMax THEN Panicked ELSE Returned(Spaces(width))

tab_content(data) ==
    IF soft_tabs(data) THEN FormatPadded(tab_width(data, None)) ELSE Returned(<<"\t">>)


(***************************************************************************)
(* Documents, paths and files the checks range over                        *)
(***************************************************************************)
Absent == [t |-> "Absent"]

\* a mapping with the given entries, the Absent ones left out
Mapping(entries) ==
    YHash([k \in {x \in DOMAIN entries : entries[x] # Absent} |-> entries[k]])

ThemeValues == {Absent, YString("my_theme"), YInteger(5)}
TabWidthValues == {Absent, YInteger(12), YInteger(-1), YString("wide")}
LineLengthGuideValues ==
    {Absent, YInteger(100), YInteger(0), YInteger(-1), YBoolean(TRUE), YBoolean(FALSE),
     YString("off")}
LineWrappingValues == {Absent, YBoolean(FALSE), YInteger(1)}
SoftTabsValues == {Absent, YBoolean(FALSE), YString("no")}
TypesValues ==
    {Absent,
     YInteger(3),
     Mapping([rs |-> YInteger(7)]),
     Mapping([rs |-> Mapping([tab_width |-> YInteger(24)])]),
     Mapping([rs |-> Mapping([tab_width |-> YInteger(-4)])]),
     Mapping([rs |-> Mapping([tab_width |-> YString("wide")])]),
     Mapping([bashrc |-> Mapping([tab_width |-> YInteger(4)]),
              txt |-> Mapping([tab_width |-> YInteger(8)])])}

MappingDocuments ==
    {Mapping([theme |-> th, tab_width |-> tw, line_length_guide |-> lg,
              line_wrapping |-> lw, soft_tabs |-> st, types |-> ty]) :
        th \in ThemeValues, tw \in TabWidthValues, lg \in LineLengthGuideValues,
        lw \in LineWrappingValues, st \in SoftTabsValues, ty \in TypesValues}

\* documents whose top level is not a mapping
ScalarDocuments == {YNull, YInteger(7), YString("theme"), YBoolean(TRUE)}

Documents == MappingDocuments \cup ScalarDocuments

Paths ==
    {None,
     Some(Path(<<"preferences", "rs">>, TRUE)),
     Some(Path(<<"README">>, TRUE)),
     Some(Path(<<"", "bashrc">>, TRUE)),
     Some(Path(<<"notes", "rs", "txt">>, TRUE)),
     Some(Path(<<"data", "rs">>, FALSE))}

\* config.yml: missing, or its contents as the parser sees them
Missing == [exists |-> FALSE]
File(valid, docs) == [exists |-> TRUE, valid |-> valid, docs |-> docs]

Files ==
    {Missing,
     File(TRUE, <<>>),
     File(FALSE, <<>>),
     File(TRUE, <<Mapping([theme |-> YString("my_theme"), tab_width |-> YInteger(12)])>>),
     File(TRUE, <<Mapping([soft_tabs |-> YBoolean(FALSE)]), Mapping([tab_width |-> YInteger(12)])>>),
     File(TRUE, <<YNull>>),
     File(TRUE, <<Mapping([line_length_guide |-> YBoolean(TRUE), theme |-> YInteger(5)])>>),
     File(TRUE, <<Mapping([types |-> Mapping([rs |-> Mapping([tab_width |-> YInteger(24)])])])>>),
     File(FALSE, <<Mapping([tab_width |-> YInteger(12)])>>)}

\* YamlLoader::load_from_str
Ok(v) == [ok |-> TRUE, value |-> v]
Err(msg) == [ok |-> FALSE, error |-> msg]
YamlLoader_load_from_str(file) == IF file.valid THEN Ok(file.docs) ELSE Err("scan error")

\* parsed_data.into_iter().nth(0)
Nth0(docs) == IF docs = <<>> THEN None ELSE Some(docs[1])

(***************************************************************************)
(* Preferences: construction                                               *)
(***************************************************************************)
NotConstructed == [state |-> "none"]
Constructed(data) == [state |-> "ok", data |-> data]
Failed(msg) == [state |-> "err", message |-> msg]

NoQuery == [op |-> "none"]

\* OpenOptions::new().read(true).write(true).create(true).open(path)
Opened(file) == IF file.exists THEN file ELSE File(TRUE, <<>>)

\* what load() returns when the directory, the open and the read succeed or fail
LoadResult(file, env) ==
    IF ~env.app_root THEN Failed("Couldn't create or open application config directory")
    ELSE IF ~env.open THEN Failed("Couldn't create or open config file")
    ELSE IF ~env.read THEN Failed("Couldn't read config file")
    ELSE IF ~YamlLoader_load_from_str(Opened(file)).ok THEN Failed("Couldn't parse config file")
    ELSE Constructed(Nth0(YamlLoader_load_from_str(Opened(file)).value))

Environments == [app_root : BOOLEAN, open : BOOLEAN, read : BOOLEAN]

\* Preferences::new(data)
new(data) ==
    /\ preferences = NotConstructed
    /\ preferences' = Constructed(data)
    /\ queried' = [op |-> "new"]
    /\ UNCHANGED <<config_file, theme_vars>>

\* load() that answers a file it cannot parse with the defaults
load_defaults_on_parse_error(env) ==
    /\ preferences = NotConstructed
    /\ preferences' = IF LoadResult(config_file, env) = Failed("Couldn't parse config file")
                      THEN Constructed(None)
                      ELSE LoadResult(config_file, env)
    /\ config_file' = IF env.app_root /\ env.open THEN Opened(config_file) ELSE config_file
    /\ queried' = [op |-> "load", env |-> env, file |-> config_file]
    /\ UNCHANGED theme_vars

\* Preferences::load()
load(env) ==
    /\ preferences = NotConstructed
    /\ preferences' = LoadResult(config_file, env)
    /\ config_file' = IF env.app_root /\ env.open THEN Opened(config_file) ELSE config_file
    /\ queried' = [op |-> "load", env |-> env, file |-> config_file]
    /\ UNCHANGED theme_vars

Query(op, path, outcome) ==
    /\ preferences.state = "ok"
    /\ queried' = [op |-> op, path |-> path, outcome |-> outcome]
    /\ UNCHANGED <<config_file, preferences, theme_vars>>

query_theme == Query("theme", None, Returned(theme(preferences.data)))
query_tab_width(path) == Query("tab_width", path, Returned(tab_width(preferences.data, path)))
query_line_length_guide ==
    Query("line_length_guide", None, Returned(line_length_guide(preferences.data)))
query_line_wrapping == Query("line_wrapping", None, Returned(line_wrapping(preferences.data)))
query_soft_tabs == Query("soft_tabs", None, Returned(soft_tabs(preferences.data)))
query_tab_content == Query("tab_content", None, tab_content(preferences.data))

(***************************************************************************)
(* Specifications                                                          *)
(***************************************************************************)
InitTheme ==
    /\ \E candidates \in CandidateSets : ThemeMode_new(candidates)
    /\ config_file = Missing
    /\ preferences = NotConstructed
    /\ queried = NoQuery

NextTheme ==
    \/ search
    \/ \E c \in Alphabet : query_push(c)
    \/ query_pop
    \/ \E b \in BOOLEAN : set_insert_mode(b)
    \/ select_previous
    \/ select_next

SpecTheme == InitTheme /\ [][NextTheme]_vars

InitPrefs ==
    /\ ThemeMode_new(<<>>)
    /\ config_file = Missing
    /\ preferences = NotConstructed
    /\ queried = NoQuery

\* the queries, open to the rest of the application once a resolver exists
Queries ==
    \/ query_theme
    \/ \E path \in Paths : query_tab_width(path)
    \/ query_line_length_guide
    \/ query_line_wrapping
    \/ query_soft_tabs
    \/ query_tab_content

\* a resolver built by Preferences::new over any document, then queried
NextPrefs ==
    \/ /\ preferences = NotConstructed
       /\ \E data \in {None} \cup {Some(d) : d \in Documents} : new(data)
    \/ Queries

SpecPrefs == InitPrefs /\ [][NextPrefs]_vars

InitLoad ==
    /\ ThemeMode_new(<<>>)
    /\ config_file \in Files
    /\ preferences = NotConstructed
    /\ queried = NoQuery

\* a resolver built by Preferences::load from config.yml, then queried
NextLoad ==
    \/ \E env \in Environments : load(env)
    \/ Queries

SpecLoad == InitLoad /\ [][NextLoad]_vars


(***************************************************************************)
(* ThemeMode: properties                                                   *)
(***************************************************************************)
\* C1: in every reachable state of the mode, an empty results list has no
\* selection, and a non-empty one has 0 <= selected_index < number of results
\* with selection() the result stored at that index.
C1_SelectionWithinResults ==
    IF Len(results_iter) = 0
    THEN selection = None
    ELSE /\ selected_index \in 0..(Len(results_iter) - 1)
         /\ selection = Some(results_iter[selected_index + 1])

\* the cursor was moved down to the third of at least three results
C1_Witness ==
    /\ called.op = "select_next"
    /\ Len(results_iter) >= 3
    /\ selected_index = 2
    /\ selection = Some(results_iter[3])

\* C2: results() never yields more than MAX_SEARCH_SELECT_RESULTS elements,
\* also when more candidates than that match the query.
C2_ResultsWithinCeiling == Len(results_iter) <= MAX_SEARCH_SELECT_RESULTS

Matching == SelectSeq(themes, LAMBDA h : similarity(input, h) > 0)

\* a search over a candidate set in which more names match than the ceiling allows
C2_Witness ==
    /\ called.op = "search"
    /\ Len(Matching) > MAX_SEARCH_SELECT_RESULTS
    /\ Len(results_iter) = MAX_SEARCH_SELECT_RESULTS

\* C3: after every search(), whatever the cursor was before, the list is the
\* matcher's answer to the current query with the cursor on its first element,
\* and there is no selection when that answer is empty.
C3_SearchResetsSelection ==
    called.op = "search" =>
        /\ results_iter = find(input, themes, MAX_SEARCH_SELECT_RESULTS)
        /\ Len(results_iter) > 0 => (selected_index = 0 /\ selection = Some(results_iter[1]))
        /\ Len(results_iter) = 0 => selection = None

\* a search that ran with the cursor moved off the first result
C3_Witness ==
    /\ called.op = "search"
    /\ called.index > 0
    /\ Len(results_iter) > 0
    /\ selected_index = 0

\* a search whose new results are empty, replacing a list that was not
C3_WitnessEmpty ==
    /\ called.op = "search"
    /\ called.len > 0
    /\ Len(results_iter) = 0
    /\ selection = None

\* C4: select_previous() on the first result, select_next() on the last one,
\* and either of them on an empty list, change nothing; otherwise the cursor
\* moves by exactly one in the direction asked, over an unchanged list.
MoveIsClamped(delta) ==
    /\ results'.data = results.data
    /\ IF Len(results.data) = 0
          \/ results.selected_index + delta < 0
          \/ results.selected_index + delta > Len(results.data) - 1
       THEN results' = results /\ selection' = selection
       ELSE results'.selected_index = results.selected_index + delta

C4_MovesClampAtBoundary ==
    [][/\ called'.op = "select_previous" => MoveIsClamped(-1)
       /\ called'.op = "select_next" => MoveIsClamped(1)]_vars

\* select_next() was called with the cursor already on the last of several results
C4_Witness ==
    /\ called.op = "select_next"
    /\ called.len >= 2
    /\ called.index = called.len - 1
    /\ selected_index = called.index

\* select_previous() moved the cursor up by one
C4_WitnessMove ==
    /\ called.op = "select_previous"
    /\ called.index = 2
    /\ selected_index = 1

\* C9: search() called again while the query has not been edited since the
\* last search() yields the same list with the cursor where that search left
\* it, and no search() changes the query, the candidates or the insert flag.
C9_SearchIdempotent ==
    [][called'.op = "search" =>
        /\ input' = input /\ themes' = themes /\ insert' = insert
        /\ called.searched =>
            /\ results'.data = results.data
            /\ results'.selected_index = 0
            /\ called.op = "search" => results' = results]_vars

\* a second search() over a query that matches, with a cursor move in between
C9_Witness ==
    /\ called.op = "search"
    /\ called.searched
    /\ called.index > 0
    /\ Len(results_iter) >= 2


(***************************************************************************)
(* Preferences: properties                                                 *)
(***************************************************************************)
QueryOps ==
    {"theme", "tab_width", "line_length_guide", "line_wrapping", "soft_tabs", "tab_content"}

\* the node at types.<ext>.tab_width for the path's extension, and at tab_width
TypedTabWidthNode(data, path) ==
    IF data.some /\ ExtensionOf(path).some
    THEN YamlIndex(YamlIndex(YamlIndex(data.value, "types"), ExtensionOf(path).value), "tab_width")
    ELSE YBadValue
GlobalTabWidthNode(data) ==
    IF data.some THEN YamlIndex(data.value, "tab_width") ELSE YBadValue

\* C5: tab_width(path) is the integer at types.<ext>.tab_width when the path
\* has an extension and that node is an integer, else the integer at
\* tab_width, else 2; a node of another type counts as absent.
C5_TabWidthResolution ==
    queried.op = "tab_width" =>
        queried.outcome =
            Returned(IF TypedTabWidthNode(preferences.data, queried.path).t = "Integer"
                     THEN TypedTabWidthNode(preferences.data, queried.path).i
                     ELSE IF GlobalTabWidthNode(preferences.data).t = "Integer"
                          THEN GlobalTabWidthNode(preferences.data).i
                          ELSE 2)

\* the document without its per-extension overrides
WithoutTypes(data) ==
    IF data.some /\ data.value.t = "Hash"
    THEN Some(YHash([k \in DOMAIN data.value.h \ {"types"} |-> data.value.h[k]]))
    ELSE data

\* C6: tab_content() returns exactly tab_width(None) spaces when soft_tabs()
\* is true and one tab character when it is false, and the same for the
\* document with its `types` overrides taken out.
C6_TabContent ==
    queried.op = "tab_content" =>
        /\ queried.outcome =
               IF soft_tabs(preferences.data)
               THEN Returned(Spaces(tab_width(preferences.data, None)))
               ELSE Returned(<<"\t">>)
        /\ queried.outcome = tab_content(WithoutTypes(preferences.data))

\* C7: line_length_guide() returns Some(value) for every integer value, zero
\* and negative ones included, Some(80) for true, and None for false, for a
\* value of another type, for a missing key and for an absent document.
C7_LineLengthGuideTriState ==
    queried.op = "line_length_guide" =>
        LET node == IF preferences.data.some
                    THEN YamlIndex(preferences.data.value, "line_length_guide")
                    ELSE YBadValue
        IN  queried.outcome =
                Returned(IF node.t = "Integer" THEN Some(node.i)
                         ELSE IF node = YBoolean(TRUE) THEN Some(80)
                         ELSE None)

\* what each query answers over an absent document
DefaultOutcome(op) ==
    CASE op = "theme" -> Returned("solarized_dark")
      [] op = "tab_width" -> Returned(2)
      [] op = "line_length_guide" -> Returned(None)
      [] op = "line_wrapping" -> Returned(TRUE)
      [] op = "soft_tabs" -> Returned(TRUE)
      [] op = "tab_content" -> Returned(<<" ", " ">>)

\* C8: every query returns a value, for every document and path, and over an
\* absent document the values are the documented defaults.
C8_QueriesTotal ==
    queried.op \in QueryOps =>
        /\ queried.outcome.returned
        /\ ~preferences.data.some => queried.outcome = DefaultOutcome(queried.op)

\* C10: load() returns the failure of the first step that fails, and no
\* resolver; when every step succeeds it returns a resolver over the first
\* document of config.yml, and over no document for a file that was missing
\* or empty, whose queries all answer with the defaults.
C10_LoadPropagatesFirstFailure ==
    /\ queried.op = "load" =>
        LET env == queried.env
            file == queried.file
            steps_ok == env.app_root /\ env.open /\ env.read
        IN  /\ ~env.app_root =>
                preferences = Failed("Couldn't create or open application config directory")
            /\ (env.app_root /\ ~env.open) =>
                preferences = Failed("Couldn't create or open config file")
            /\ (env.app_root /\ env.open /\ ~env.read) =>
                preferences = Failed("Couldn't read config file")
            /\ (steps_ok /\ file.exists /\ ~file.valid) =>
                preferences = Failed("Couldn't parse config file")
            /\ (steps_ok /\ ~file.exists) => preferences = Constructed(None)
            /\ (steps_ok /\ file.exists /\ file.valid /\ file.docs = <<>>) =>
                preferences = Constructed(None)
            /\ (steps_ok /\ file.exists /\ file.valid /\ file.docs # <<>>) =>
                preferences = Constructed(Some(file.docs[1]))
    /\ preferences.state = "err" => queried.op = "load"
    /\ (queried.op \in QueryOps /\ preferences = Constructed(None)) =>
        queried.outcome = DefaultOutcome(queried.op)

\* load() created the missing config.yml and returned a resolver over no document
C10_Witness ==
    /\ queried.op = "load"
    /\ ~queried.file.exists
    /\ config_file.exists
    /\ preferences = Constructed(None)

\* load() failed at the open although the read would have failed too
C10_WitnessFailure ==
    /\ queried.op = "load"
    /\ ~queried.env.open /\ ~queried.env.read
    /\ preferences = Failed("Couldn't create or open config file")

\* load() kept the first of the two documents of config.yml
C10_WitnessFirstDocument ==
    /\ queried.op = "load"
    /\ preferences.state = "ok"
    /\ Len(queried.file.docs) = 2
    /\ preferences.data = Some(queried.file.docs[1])


(***************************************************************************)
(* Preferences: what the queries do with integers of any sign              *)
(***************************************************************************)
\* tab_width(path) follows the resolution order of C5 and returns the integer
\* it finds converted with `as usize`.
TabWidthResolutionAsUsize ==
    queried.op = "tab_width" =>
        queried.outcome =
            Returned(IF TypedTabWidthNode(preferences.data, queried.path).t = "Integer"
                     THEN TypedTabWidthNode(preferences.data, queried.path).i % UsizeModulus
                     ELSE IF GlobalTabWidthNode(preferences.data).t = "Integer"
                          THEN GlobalTabWidthNode(preferences.data).i % UsizeModulus
                          ELSE 2)

\* tab_content() is as C6 says whenever the global tab_width is not a negative
\* integer, and does not return when it is (and soft tabs are on).
TabContentUnlessNegativeWidth ==
    queried.op = "tab_content" =>
        LET node == GlobalTabWidthNode(preferences.data)
            negative == node.t = "Integer" /\ node.i < 0
        IN  /\ queried.outcome = tab_content(WithoutTypes(preferences.data))
            /\ ~soft_tabs(preferences.data) => queried.outcome = Returned(<<"\t">>)
            /\ (soft_tabs(preferences.data) /\ ~negative) =>
                   queried.outcome = Returned(Spaces(tab_width(preferences.data, None)))
            /\ (soft_tabs(preferences.data) /\ negative) => ~queried.outcome.returned

\* line_length_guide() is as C7 says for every value but a negative integer,
\* which comes back as 2^w - |value|.
LineLengthGuideUnlessNegative ==
    queried.op = "line_length_guide" =>
        LET node == IF preferences.data.some
                    THEN YamlIndex(preferences.data.value, "line_length_guide")
                    ELSE YBadValue
        IN  queried.outcome =
                Returned(IF node.t = "Integer" /\ node.i >= 0 THEN Some(node.i)
                         ELSE IF node.t = "Integer" THEN Some(UsizeModulus + node.i)
                         ELSE IF node = YBoolean(TRUE) THEN Some(80)
                         ELSE None)

\* every query but tab_content() returns for every document and path, and
\* every query answers an absent document with its default.
QueriesTotalButTabContent ==
    queried.op \in QueryOps =>
        /\ queried.op # "tab_content" => queried.outcome.returned
        /\ ~preferences.data.some => queried.outcome = DefaultOutcome(queried.op)

====
